---- MODULE Spec2Model ----
(***************************************************************************)
(* The client of the workflow builder: the App component (App.tsx, kept    *)
(* as src/unnamed/part_001), its API client (src/frontend/src/api.ts) and  *)
(* its types (types.ts, kept as src/unnamed/part_000).                     *)
(*                                                                         *)
(* Encodings.  A nullable id (selectedId, runId, wsRef.current) is a       *)
(* natural number, 0 standing for null.  runStatus is a string, "null"     *)
(* standing for null.  A text whose blankness matters (the draft's name, a *)
(* step's prompt) is a sequence of characters, each character either the   *)
(* whitespace " " or the letter "a"; other texts are strings.  An object   *)
(* with optional fields (ValidationRule, Partial<...>) is a record whose   *)
(* domain holds exactly the fields that are present.                       *)
(***************************************************************************)
EXTENDS Integers, Sequences, FiniteSets, TLC

(***************************************************************************)
(* Bounds of the model.                                                    *)
(***************************************************************************)
MaxRuns == 2        \* start-run requests the server answers with a run id
MaxInflight == 2    \* start-run requests awaiting their response at once
MaxLog == 4         \* events folded into the log of one session
MaxSteps == 3       \* steps of a draft
MaxSavedSteps == 2  \* steps of a draft, where drafts are saved or commands go stale
MaxRules == 2       \* validation rules of a step
MaxSaves == 1       \* create requests the store accepts

VARIABLES
  store,      \* Workflow Store (server): the saved records
  nextRun,    \* Run Service (server): run ids handed out so far
  workflows,  \* useState: the records loaded from the store
  selectedId, \* useState: id of the selected record, 0 for null
  draft,      \* useState: the DraftWorkflow being edited
  isEditing,  \* useState: the "unsaved" flag
  shared,     \* per draft step: the record step whose validations array it holds
  rendered,   \* the draft (and its arrays) of the last render: what handlers close over
  runId,      \* useState: id of the run shown, 0 for null
  runStatus,  \* useState: "null", "running", "completed" or "failed"
  events,     \* useState: the event log
  wsRef,      \* useRef: the socket the controller remembers, 0 for null
  sockets,    \* every WebSocket created so far: [run, state]
  runCalls,   \* executeWorkflow calls suspended at `await runWorkflow`
  saveCalls,  \* saveWorkflow calls suspended at an await: [body, pc, saved]
  listCalls,  \* loadWorkflows calls (of the mount effect) suspended at their await
  restCalls,  \* requests issued to POST /workflows so far
  mounted,    \* FALSE once the unmount cleanup has run
  last        \* the handler that ran last, and what it was given

serverVars == <<store, nextRun>>
editorVars == <<draft, isEditing, shared>>
sessionVars == <<runId, runStatus, events>>
channelVars == <<wsRef, sockets, runCalls>>
saveVars == <<saveCalls, restCalls>>
vars == <<store, nextRun, workflows, selectedId, draft, isEditing, shared, rendered, runId,
          runStatus, events, wsRef, sockets, runCalls, saveCalls, listCalls,
          restCalls, mounted, last>>

(***************************************************************************)
(* Texts and String.prototype.trim.                                        *)
(***************************************************************************)
RECURSIVE TrimStart(_)
TrimStart(s) ==
  IF s # <<>> /\ Head(s) = " " THEN TrimStart(Tail(s)) ELSE s

RECURSIVE TrimEnd(_)
TrimEnd(s) ==
  IF s # <<>> /\ s[Len(s)] = " " THEN TrimEnd(SubSeq(s, 1, Len(s) - 1)) ELSE s

Trim(s) == TrimEnd(TrimStart(s))

\* JavaScript truthiness of a string: the empty string is falsy.
Truthy(s) == s # <<>>

(***************************************************************************)
(* Object spread: { ...obj, ...updates }.                                  *)
(***************************************************************************)
Spread(obj, updates) ==
  [k \in (DOMAIN obj) \cup (DOMAIN updates) |->
     IF k \in DOMAIN updates THEN updates[k] ELSE obj[k]]

(***************************************************************************)
(* types.ts                                                                *)
(***************************************************************************)
ValidationTypes ==
  {"python_syntax", "json_valid", "regex_match", "contains", "test_exec",
   "llm_judge"}

EventTypes == {"run_started", "step_started", "run_completed", "run_failed"}

(***************************************************************************)
(* Draft helpers.                                                          *)
(***************************************************************************)
DefaultMaxRetries == 2

createEmptyStep(order) ==
  [order |-> order,
   name |-> "Step " \o ToString(order),
   prompt |-> <<>>,
   model |-> "kimi-k2-instruct-0905",
   validations |-> <<>>,
   max_retries |-> DefaultMaxRetries]

createEmptyWorkflow ==
  [name |-> <<>>, description |-> "", steps |-> <<createEmptyStep(1)>>]

(***************************************************************************)
(* The record the store holds at first: the workflow the API smoke test    *)
(* creates (one step, order 0, one `contains` rule).  Every other record   *)
(* is one the editor saved.                                                *)
(***************************************************************************)
SmokeWorkflow ==
  [id |-> 1, name |-> <<"a">>, description |-> "smoke test",
   steps |-> << [id |-> "s1", name |-> "step0", order |-> 0,
                 model |-> "kimi-k2-instruct-0905", prompt |-> <<"a">>,
                 validations |-> << [type |-> "contains", expected |-> "hello"] >>,
                 max_retries |-> 0] >>]

InitialStore == <<SmokeWorkflow>>

(***************************************************************************)
(* Object identity.  selectWorkflow copies each step of the record into a  *)
(* new object but hands over `s.validations` itself, so a draft step may   *)
(* hold the very array of step `step` of the record workflows[rec].  A     *)
(* draft step whose array belongs to the draft alone holds NotShared.      *)
(***************************************************************************)
NotShared == [rec |-> 0, step |-> 0]

\* setWorkflows(data): the list holds new objects, none of them the draft's.
Unshared(sh) == [i \in DOMAIN sh |-> NotShared]

\* What the list holds once the array draft step `index` holds is `arr`.
WriteShared(wfs, sh, index, arr) ==
  IF index \in DOMAIN sh /\ sh[index].rec \in DOMAIN wfs
    THEN [wfs EXCEPT ![sh[index].rec].steps[sh[index].step].validations = arr]
    ELSE wfs

(***************************************************************************)
(* The state after construction and mount: the mount effect has called     *)
(* loadWorkflows, which is suspended at `await listWorkflows()`.           *)
(***************************************************************************)
Init ==
  /\ store = InitialStore
  /\ nextRun = 0
  /\ workflows = <<>>
  /\ selectedId = 0
  /\ draft = createEmptyWorkflow
  /\ isEditing = FALSE
  /\ shared = <<NotShared>>
  /\ rendered = [draft |-> createEmptyWorkflow, shared |-> <<NotShared>>]
  /\ runId = 0
  /\ runStatus = "null"
  /\ events = <<>>
  /\ wsRef = 0
  /\ sockets = <<>>
  /\ runCalls = <<>>
  /\ saveCalls = <<>>
  /\ listCalls = 1
  /\ restCalls = 0
  /\ mounted = TRUE
  /\ last = [op |-> "mount", arg |-> ""]

(***************************************************************************)
(* A setter schedules a render, and React renders before it handles the    *)
(* next event: the handlers of the next event close over the new draft.    *)
(* Every step of the component ends with it, but a command that is issued  *)
(* by the event that issued the command before it.                         *)
(***************************************************************************)
render == rendered' = [draft |-> draft', shared |-> shared']

(***************************************************************************)
(* Sequence helpers.                                                       *)
(***************************************************************************)
RemoveAt(seq, i) == [j \in 1..(Len(seq) - 1) |-> IF j < i THEN seq[j] ELSE seq[j + 1]]

\* Array.prototype.filter((_, i) => i !== index), index counted from 1 here.
FilterOutIndex(seq, index) ==
  IF index \in DOMAIN seq THEN RemoveAt(seq, index) ELSE seq

IsPrefix(s, t) == Len(s) <= Len(t) /\ SubSeq(t, 1, Len(s)) = s

(***************************************************************************)
(* Workflow list: loadWorkflows (the call of the mount effect).            *)
(***************************************************************************)
LoadWorkflowsDone(ok) ==
  /\ listCalls > 0
  /\ listCalls' = listCalls - 1
  /\ workflows' = IF ok /\ mounted THEN store ELSE workflows
  /\ shared' = IF ok /\ mounted THEN Unshared(shared) ELSE shared
  /\ last' = [op |-> "loadWorkflows", arg |-> IF ok THEN "ok" ELSE "fail"]
  /\ UNCHANGED <<serverVars, selectedId, draft, isEditing, sessionVars, channelVars,
                 saveVars, mounted>>

(***************************************************************************)
(* Workflow selection.                                                     *)
(***************************************************************************)
\* A copy that gives every step the retry budget of a new step.
ToDraftStepDefaultRetries(s) ==
  [order |-> s.order, name |-> s.name, prompt |-> s.prompt, model |-> s.model,
   validations |-> s.validations, max_retries |-> DefaultMaxRetries]

ToDraftStep(s) ==
  [order |-> s.order, name |-> s.name, prompt |-> s.prompt, model |-> s.model,
   validations |-> s.validations, max_retries |-> s.max_retries]

ToDraft(workflow) ==
  [name |-> workflow.name, description |-> workflow.description,
   steps |-> [i \in DOMAIN workflow.steps |-> ToDraftStep(workflow.steps[i])]]

selectWorkflow(k) ==
  /\ mounted
  /\ k \in DOMAIN workflows
  /\ selectedId' = workflows[k].id
  /\ draft' = ToDraft(workflows[k])
  /\ shared' = [i \in DOMAIN workflows[k].steps |-> [rec |-> k, step |-> i]]
  /\ isEditing' = FALSE
  /\ runId' = 0
  /\ runStatus' = "null"
  /\ events' = <<>>
  /\ last' = [op |-> "selectWorkflow", arg |-> ""]
  /\ UNCHANGED <<serverVars, workflows, channelVars, saveVars, listCalls, mounted>>

startNewWorkflow ==
  /\ mounted
  /\ selectedId' = 0
  /\ draft' = createEmptyWorkflow
  /\ shared' = <<NotShared>>
  /\ isEditing' = TRUE
  /\ runId' = 0
  /\ runStatus' = "null"
  /\ events' = <<>>
  /\ last' = [op |-> "startNewWorkflow", arg |-> ""]
  /\ UNCHANGED <<serverVars, workflows, channelVars, saveVars, listCalls, mounted>>

(***************************************************************************)
(* Run controller: executeWorkflow, the event socket, the unmount cleanup. *)
(***************************************************************************)
\* WebSocket.close(): a socket that is closed stays closed.
CloseSocket(socks, s) ==
  IF s \in DOMAIN socks THEN [socks EXCEPT ![s].state = "closed"] ELSE socks

OpenSockets == {s \in DOMAIN sockets : sockets[s].state = "open"}

\* The Run button is rendered when a workflow is selected and is disabled while
\* the status is running; the handler runs up to `await runWorkflow(selectedId)`.
executeWorkflow ==
  /\ mounted
  /\ selectedId # 0
  /\ runStatus # "running"
  /\ Len(runCalls) < MaxInflight
  /\ sockets' = CloseSocket(sockets, wsRef)
  /\ runCalls' = Append(runCalls, selectedId)
  /\ last' = [op |-> "executeWorkflow", arg |-> ""]
  /\ UNCHANGED <<serverVars, workflows, selectedId, editorVars, sessionVars,
                 wsRef, saveVars, listCalls, mounted>>

\* A socket addressed to the run the state shows, not to the run of the response.
createEventSocketForShownRun(socks, run, wf) ==
  Append(socks, [run |-> runId, wf |-> wf, state |-> "open"])

\* createEventSocket: a new WebSocket for the run.
createEventSocket(socks, run, wf) ==
  Append(socks, [run |-> run, wf |-> wf, state |-> "open"])

\* The call resumes with a response: the state setters, then the socket.
\* A state setter of an unmounted component changes nothing.
runWorkflowOk(i) ==
  /\ i \in DOMAIN runCalls
  /\ nextRun < MaxRuns
  /\ nextRun' = nextRun + 1
  /\ runId' = IF mounted THEN nextRun + 1 ELSE runId
  /\ runStatus' = IF mounted THEN "running" ELSE runStatus
  /\ events' = IF mounted THEN <<>> ELSE events
  /\ sockets' = createEventSocket(sockets, nextRun + 1, runCalls[i])
  /\ wsRef' = Len(sockets')
  /\ runCalls' = RemoveAt(runCalls, i)
  /\ last' = [op |-> "runWorkflow", arg |-> "ok"]
  /\ UNCHANGED <<store, workflows, selectedId, editorVars, saveVars, listCalls,
                 mounted>>

\* A catch block that is followed by the opening of the socket.
runWorkflowFailOpening(i) ==
  /\ i \in DOMAIN runCalls
  /\ runCalls' = RemoveAt(runCalls, i)
  /\ sockets' = createEventSocket(sockets, runId, runCalls[i])
  /\ wsRef' = Len(sockets')
  /\ last' = [op |-> "runWorkflow", arg |-> "fail"]
  /\ UNCHANGED <<serverVars, workflows, selectedId, editorVars, sessionVars,
                 saveVars, listCalls, mounted>>

\* The call resumes with a rejection (apiFetch throws): the catch block.
runWorkflowFail(i) ==
  /\ i \in DOMAIN runCalls
  /\ runCalls' = RemoveAt(runCalls, i)
  /\ last' = [op |-> "runWorkflow", arg |-> "fail"]
  /\ UNCHANGED <<serverVars, workflows, selectedId, editorVars, sessionVars,
                 wsRef, sockets, saveVars, listCalls, mounted>>

\* The texts a channel delivers: the JSON text of an ExecutionEvent of the
\* channel's run, one per event type; a text that is not JSON; the JSON text {}.
Payloads == EventTypes \cup {"not json", "{}"}

\* JSON.parse(event.data) as ExecutionEvent: the cast checks nothing.
JSONParse(p, run) ==
  CASE p = "not json" -> [ok |-> FALSE]
    [] p = "{}" -> [ok |-> TRUE, value |-> [event_type |-> "undefined", run_id |-> 0]]
    [] OTHER -> [ok |-> TRUE, value |-> [event_type |-> p, run_id |-> run]]

\* Whether a text is the encoding of an ExecutionEvent (types.ts).
IsExecutionEvent(p) == p \in EventTypes

\* A log that skips an event equal to the one before it.
FoldLogDeduplicating(log, event) ==
  IF log # <<>> /\ log[Len(log)] = event THEN log ELSE Append(log, event)

\* onEvent, the log: setEvents(prev => [...prev, event]).
FoldLog(log, event) == Append(log, event)

\* A status that every event other than the two terminal ones sets to running.
FoldStatusRegressing(status, event) ==
  IF event.event_type = "run_completed" THEN "completed"
  ELSE IF event.event_type = "run_failed" THEN "failed"
  ELSE "running"

\* onEvent, the status.
FoldStatus(status, event) ==
  IF event.event_type = "run_completed" THEN "completed"
  ELSE IF event.event_type = "run_failed" THEN "failed"
  ELSE status

\* ws.onmessage of an open socket.
onmessage(s, p) ==
  LET parsed == JSONParse(p, sockets[s].run) IN
  /\ s \in OpenSockets
  /\ parsed.ok => Len(events) < MaxLog
  /\ events' = IF parsed.ok /\ mounted THEN FoldLog(events, parsed.value) ELSE events
  /\ runStatus' = IF parsed.ok /\ mounted THEN FoldStatus(runStatus, parsed.value)
                  ELSE runStatus
  /\ last' = [op |-> "onmessage", arg |-> p]
  /\ UNCHANGED <<serverVars, workflows, selectedId, editorVars, runId,
                 channelVars, saveVars, listCalls, mounted>>

\* ws.onclose: the server or the network ended the connection.
onclose(s) ==
  /\ s \in OpenSockets
  /\ sockets' = CloseSocket(sockets, s)
  /\ last' = [op |-> "onclose", arg |-> ""]
  /\ UNCHANGED <<serverVars, workflows, selectedId, editorVars, sessionVars,
                 wsRef, runCalls, saveVars, listCalls, mounted>>

\* ws.onerror: both handlers only log.
onerror(s) ==
  /\ s \in OpenSockets
  /\ last' = [op |-> "onerror", arg |-> ""]
  /\ UNCHANGED <<serverVars, workflows, selectedId, editorVars, sessionVars,
                 channelVars, saveVars, listCalls, mounted>>

\* The cleanup of the unmount effect.
unmount ==
  /\ mounted
  /\ mounted' = FALSE
  /\ sockets' = CloseSocket(sockets, wsRef)
  /\ last' = [op |-> "unmount", arg |-> ""]
  /\ UNCHANGED <<serverVars, workflows, selectedId, editorVars, sessionVars,
                 wsRef, runCalls, saveVars, listCalls>>

NextRun ==
  \/ \E ok \in BOOLEAN : LoadWorkflowsDone(ok) /\ render
  \/ \E k \in 1..(Len(InitialStore) + MaxSaves) : selectWorkflow(k) /\ render
  \/ startNewWorkflow /\ render
  \/ executeWorkflow /\ render
  \/ \E i \in 1..MaxInflight : runWorkflowOk(i) /\ render
  \/ \E i \in 1..MaxInflight : runWorkflowFail(i) /\ render
  \/ \E s \in 1..MaxRuns, p \in Payloads : onmessage(s, p) /\ render
  \/ \E s \in 1..MaxRuns : onclose(s) /\ render
  \/ \E s \in 1..MaxRuns : onerror(s) /\ render
  \/ unmount /\ render

SpecRun == Init /\ [][NextRun]_vars

(***************************************************************************)
(* Draft editing.  Indices are counted from 1 here and from 0 in the code. *)
(***************************************************************************)
updateDraftField(field, value) ==
  /\ mounted
  /\ draft' = Spread(draft, [f \in {field} |-> value])
  /\ isEditing' = TRUE
  /\ last' = [op |-> "updateDraftField", arg |-> field]
  /\ UNCHANGED <<serverVars, workflows, shared, selectedId, sessionVars, channelVars,
                 saveVars, listCalls, mounted>>

\* prev.steps.map((s, i) => i === index ? { ...s, ...updates } : s)
MergeAt(seq, index, updates) ==
  [i \in DOMAIN seq |-> IF i = index THEN Spread(seq[i], updates) ELSE seq[i]]

\* What the handler that ran was given: "stale" marks an index that is not one
\* of the draft's, "TypeError" a handler that threw.
Ran(handler, inRange) == [op |-> handler, arg |-> IF inRange THEN "" ELSE "stale"]

\* updateStep as called by `handler`; `written` is the workflows list once the
\* handler has built its updates.
updateStepAs(handler, inRange, index, updates, written) ==
  /\ mounted
  /\ draft' = [draft EXCEPT !.steps = MergeAt(draft.steps, index, updates)]
  /\ shared' = IF index \in DOMAIN shared /\ "validations" \in DOMAIN updates
                 THEN [shared EXCEPT ![index] = NotShared]
                 ELSE shared
  /\ workflows' = written
  /\ isEditing' = TRUE
  /\ last' = Ran(handler, inRange)
  /\ UNCHANGED <<serverVars, selectedId, sessionVars, channelVars,
                 saveVars, listCalls, mounted>>

updateStepFrom(handler, index, updates) ==
  updateStepAs(handler, index \in DOMAIN draft.steps, index, updates, workflows)

updateStep(index, updates) == updateStepFrom("updateStep", index, updates)

addStep ==
  /\ mounted
  /\ draft' = [draft EXCEPT
                 !.steps = Append(draft.steps, createEmptyStep(Len(draft.steps) + 1))]
  /\ shared' = Append(shared, NotShared)
  /\ isEditing' = TRUE
  /\ last' = [op |-> "addStep", arg |-> ""]
  /\ UNCHANGED <<serverVars, workflows, selectedId, sessionVars, channelVars,
                 saveVars, listCalls, mounted>>

\* .map((s, i) => ({ ...s, order: i + 1 }))
KeepOrder(steps) == steps

Renumber(steps) == [i \in DOMAIN steps |-> Spread(steps[i], [order |-> i])]

removeStep(index) ==
  /\ mounted
  /\ draft' = [draft EXCEPT !.steps = Renumber(FilterOutIndex(draft.steps, index))]
  /\ shared' = FilterOutIndex(shared, index)
  /\ isEditing' = TRUE
  /\ last' = Ran("removeStep", index \in DOMAIN draft.steps)
  /\ UNCHANGED <<serverVars, workflows, selectedId, sessionVars, channelVars,
                 saveVars, listCalls, mounted>>

\* `steps.length > 0` in place of `steps.length > 1`.
canRemoveAny == Len(draft.steps) > 0

\* StepEditor renders the Remove button only when canRemove.
canRemove == Len(draft.steps) > 1

(***************************************************************************)
(* Validation rule editing.  Each handler reads the step from `draft` of   *)
(* the render it belongs to, builds the new rules from it and hands them   *)
(* to updateStep, which merges them into the draft of the time.  The       *)
(* rendered editors pass the index of a rendered step; with any other      *)
(* index draft.steps[stepIndex] is undefined and the handler throws before *)
(* it reaches updateStep.                                                  *)
(***************************************************************************)
\* `draft.steps[stepIndex].validations` with no such step: a TypeError leaves
\* the handler before any setter is called.
Throw(handler) ==
  /\ mounted
  /\ last' = [op |-> handler, arg |-> "TypeError"]
  /\ UNCHANGED <<serverVars, workflows, selectedId, editorVars, sessionVars,
                 channelVars, saveVars, listCalls, mounted>>

\* draft.steps[stepIndex].validations, as the handler reads it.
RenderedRules(stepIndex) == rendered.draft.steps[stepIndex].validations

\* arr.push(x): the array itself grows.
AfterPush(arr, x) == Append(arr, x)

\* [...arr, x] builds a new array: arr holds what it held.
AfterSpread(arr, x) == arr

addValidation(stepIndex) ==
  IF stepIndex \in DOMAIN rendered.draft.steps
    THEN /\ Len(RenderedRules(stepIndex)) < MaxRules
         /\ updateStepAs("addValidation", TRUE, stepIndex,
              [validations |-> Append(RenderedRules(stepIndex),
                                      [type |-> "contains", expected |-> ""])],
              WriteShared(workflows, rendered.shared, stepIndex,
                          AfterSpread(RenderedRules(stepIndex),
                                      [type |-> "contains", expected |-> ""])))
    ELSE Throw("addValidation")

\* step.validations.map(...) builds a new array of rules, and a new rule object
\* for the rule it changes.
updateValidationFrom(handler, stepIndex, ruleIndex, updates) ==
  IF stepIndex \in DOMAIN rendered.draft.steps
    THEN updateStepAs(handler, ruleIndex \in DOMAIN RenderedRules(stepIndex), stepIndex,
           [validations |-> MergeAt(RenderedRules(stepIndex), ruleIndex, updates)],
           workflows)
    ELSE Throw(handler)

updateValidation(stepIndex, ruleIndex, updates) ==
  updateValidationFrom("updateValidation", stepIndex, ruleIndex, updates)

\* step.validations.filter(...) builds a new array.
removeValidation(stepIndex, ruleIndex) ==
  IF stepIndex \in DOMAIN rendered.draft.steps
    THEN updateStepAs("removeValidation",
           ruleIndex \in DOMAIN RenderedRules(stepIndex), stepIndex,
           [validations |-> FilterOutIndex(RenderedRules(stepIndex), ruleIndex)],
           workflows)
    ELSE Throw("removeValidation")

\* ValidationEditor.handleTypeChange: the updates handed to onUpdate.
TypeChangeUpdates(newType) ==
  CASE newType = "contains" -> [type |-> newType, expected |-> ""]
    [] newType = "regex_match" -> [type |-> newType, pattern |-> ""]
    [] newType = "test_exec" -> [type |-> newType, test_code |-> ""]
    [] newType = "llm_judge" -> [type |-> newType, criteria |-> ""]
    [] OTHER -> [type |-> newType]

\* ValidationEditor.getConfigInput: the field the input of a rule edits, "" when
\* the rule's type shows no input.
ConfigField(type) ==
  CASE type = "contains" -> "expected"
    [] type = "regex_match" -> "pattern"
    [] type = "test_exec" -> "test_code"
    [] type = "llm_judge" -> "criteria"
    [] OTHER -> ""

\* The select of a rendered rule changes.
handleTypeChange(stepIndex, ruleIndex, newType) ==
  /\ stepIndex \in DOMAIN rendered.draft.steps
  /\ ruleIndex \in DOMAIN RenderedRules(stepIndex)
  /\ updateValidationFrom("handleTypeChange", stepIndex, ruleIndex,
       TypeChangeUpdates(newType))

\* The config input of a rendered rule changes.
editConfig(stepIndex, ruleIndex, value) ==
  /\ stepIndex \in DOMAIN rendered.draft.steps
  /\ ruleIndex \in DOMAIN RenderedRules(stepIndex)
  /\ ConfigField(RenderedRules(stepIndex)[ruleIndex].type) # ""
  /\ updateValidationFrom("editConfig", stepIndex, ruleIndex,
       [f \in {ConfigField(RenderedRules(stepIndex)[ruleIndex].type)} |-> value])

(***************************************************************************)
(* Save.                                                                   *)
(***************************************************************************)
\* The two checks that precede the request.
SaveValidUntrimmed(d) ==
  /\ Truthy(d.name)
  /\ ~ \E i \in DOMAIN d.steps : ~ Truthy(d.steps[i].prompt)

SaveValid(d) ==
  /\ Truthy(Trim(d.name))
  /\ ~ \E i \in DOMAIN d.steps : ~ Truthy(Trim(d.steps[i].prompt))

\* The CreateWorkflowRequest handed to createWorkflow.
CreateRequest(d) == [name |-> d.name, description |-> d.description, steps |-> d.steps]

\* The handler up to `await createWorkflow(...)`, or up to its early return.
saveWorkflow ==
  /\ mounted
  /\ IF SaveValid(draft)
       THEN /\ restCalls < MaxSaves
            /\ restCalls' = restCalls + 1
            /\ saveCalls' = Append(saveCalls,
                 [body |-> CreateRequest(draft), pc |-> "create", saved |-> 0])
            /\ last' = [op |-> "saveWorkflow", arg |-> "request"]
       ELSE /\ UNCHANGED saveVars
            /\ last' = [op |-> "saveWorkflow", arg |-> "alert"]
  /\ UNCHANGED <<serverVars, workflows, selectedId, editorVars, sessionVars,
                 channelVars, listCalls, mounted>>

\* POST /workflows: the store keeps the request as a record under a new id.
StoreRecord(id, body) ==
  [id |-> id, name |-> body.name, description |-> body.description,
   steps |-> [i \in DOMAIN body.steps |->
                Spread(body.steps[i], [id |-> ToString(id) \o "-" \o ToString(i)])]]

\* The call resumes with the saved record and suspends in loadWorkflows.
createWorkflowOk(i) ==
  /\ i \in DOMAIN saveCalls
  /\ saveCalls[i].pc = "create"
  /\ store' = Append(store, StoreRecord(Len(store) + 1, saveCalls[i].body))
  /\ saveCalls' = [saveCalls EXCEPT ![i].pc = "list", ![i].saved = Len(store) + 1]
  /\ last' = [op |-> "createWorkflow", arg |-> "ok"]
  /\ UNCHANGED <<nextRun, workflows, selectedId, editorVars, sessionVars,
                 channelVars, listCalls, restCalls, mounted>>

\* The call resumes with a rejection: the catch block.
createWorkflowFail(i) ==
  /\ i \in DOMAIN saveCalls
  /\ saveCalls[i].pc = "create"
  /\ saveCalls' = RemoveAt(saveCalls, i)
  /\ last' = [op |-> "createWorkflow", arg |-> "fail"]
  /\ UNCHANGED <<serverVars, workflows, selectedId, editorVars, sessionVars,
                 channelVars, listCalls, restCalls, mounted>>

\* loadWorkflows returns (it catches its own failure); the rest of saveWorkflow.
saveWorkflowDone(i, ok) ==
  /\ i \in DOMAIN saveCalls
  /\ saveCalls[i].pc = "list"
  /\ workflows' = IF ok /\ mounted THEN store ELSE workflows
  /\ shared' = IF ok /\ mounted THEN Unshared(shared) ELSE shared
  /\ selectedId' = IF mounted THEN saveCalls[i].saved ELSE selectedId
  /\ isEditing' = IF mounted THEN FALSE ELSE isEditing
  /\ saveCalls' = RemoveAt(saveCalls, i)
  /\ last' = [op |-> "saveWorkflow", arg |-> "done"]
  /\ UNCHANGED <<serverVars, draft, sessionVars, channelVars, listCalls,
                 restCalls, mounted>>

(***************************************************************************)
(* The editor: the draft's name and steps, and save.                       *)
(***************************************************************************)
Texts == {<<>>, <<" ">>, <<"a">>}

NextDraft ==
  \/ \E ok \in BOOLEAN : LoadWorkflowsDone(ok) /\ render
  \/ \E k \in 1..Len(InitialStore) : selectWorkflow(k) /\ render
  \/ startNewWorkflow /\ render
  \/ \E t \in Texts : updateDraftField("name", t) /\ render
  \/ \E i \in 1..MaxSteps, t \in Texts :
       i \in DOMAIN draft.steps /\ updateStep(i, [prompt |-> t]) /\ render
  \/ Len(draft.steps) < MaxSteps /\ addStep /\ render
  \/ \E i \in 1..MaxSteps : canRemove /\ i \in DOMAIN draft.steps /\ removeStep(i) /\ render

SpecDraft == Init /\ [][NextDraft]_vars

(***************************************************************************)
(* Save: the name and the prompts of a new draft are edited, steps are     *)
(* added, and the draft is saved.                                          *)
(***************************************************************************)
NextSave ==
  \/ \E ok \in BOOLEAN : LoadWorkflowsDone(ok) /\ render
  \/ startNewWorkflow /\ render
  \/ \E t \in Texts : updateDraftField("name", t) /\ render
  \/ \E i \in 1..MaxSavedSteps, t \in Texts :
       i \in DOMAIN draft.steps /\ updateStep(i, [prompt |-> t]) /\ render
  \/ Len(draft.steps) < MaxSavedSteps /\ addStep /\ render
  \/ saveWorkflow /\ render
  \/ \E i \in 1..MaxSaves : createWorkflowOk(i) /\ render
  \/ \E i \in 1..MaxSaves : createWorkflowFail(i) /\ render
  \/ \E i \in 1..MaxSaves, ok \in BOOLEAN : saveWorkflowDone(i, ok) /\ render

SpecSave == Init /\ [][NextSave]_vars

(***************************************************************************)
(* The validation editor: the rules of the draft's steps are added,        *)
(* retyped, edited and removed.                                            *)
(***************************************************************************)
ConfigTexts == {"x"}

NextRule ==
  \/ \E ok \in BOOLEAN : LoadWorkflowsDone(ok) /\ render
  \/ \E k \in 1..Len(InitialStore) : selectWorkflow(k) /\ render
  \/ startNewWorkflow /\ render
  \/ \E i \in 1..MaxSteps : i \in DOMAIN draft.steps /\ addValidation(i) /\ render
  \/ \E i \in 1..MaxSteps, j \in 1..MaxRules, t \in ValidationTypes :
       handleTypeChange(i, j, t) /\ render
  \/ \E i \in 1..MaxSteps, j \in 1..MaxRules, v \in ConfigTexts :
       editConfig(i, j, v) /\ render
  \/ \E i \in 1..MaxSteps, j \in 1..MaxRules :
       /\ i \in DOMAIN draft.steps
       /\ j \in DOMAIN draft.steps[i].validations
       /\ removeValidation(i, j)
       /\ render

SpecRule == Init /\ [][NextRule]_vars

(***************************************************************************)
(* The edit commands as functions: each is called with any index, one the  *)
(* draft has or not (a stale command), and removeStep without the guard of *)
(* the Remove button.                                                      *)
(***************************************************************************)
StepIndices == 0..(MaxSavedSteps + 1)

RuleIndices == 0..(MaxRules + 1)

NextCommand ==
  \/ \E ok \in BOOLEAN : LoadWorkflowsDone(ok) /\ render
  \/ \E k \in 1..Len(InitialStore) : selectWorkflow(k) /\ render
  \/ startNewWorkflow /\ render
  \/ \E i \in StepIndices : updateStep(i, [prompt |-> <<"a">>]) /\ render
  \/ Len(draft.steps) < MaxSavedSteps /\ addStep /\ render
  \/ \E i \in StepIndices : removeStep(i) /\ render
  \/ \E i \in StepIndices : addValidation(i) /\ render
  \/ \E i \in StepIndices, j \in RuleIndices, v \in ConfigTexts :
       updateValidation(i, j, [expected |-> v]) /\ render
  \/ \E i \in StepIndices, j \in RuleIndices : removeValidation(i, j) /\ render

SpecCommand == Init /\ [][NextCommand]_vars

(***************************************************************************)
(* The whole editor as the operator drives it: fields, steps and rules,    *)
(* every command bound to a rendered step or rule, Remove shown only when  *)
(* canRemove.                                                              *)
(***************************************************************************)
NextEditor ==
  \/ \E ok \in BOOLEAN : LoadWorkflowsDone(ok) /\ render
  \/ \E k \in 1..Len(InitialStore) : selectWorkflow(k) /\ render
  \/ startNewWorkflow /\ render
  \/ updateDraftField("name", <<"a">>) /\ render
  \/ \E i \in 1..MaxSavedSteps :
       i \in DOMAIN draft.steps /\ updateStep(i, [prompt |-> <<"a">>]) /\ render
  \/ Len(draft.steps) < MaxSavedSteps /\ addStep /\ render
  \/ \E i \in 1..MaxSavedSteps :
       canRemove /\ i \in DOMAIN draft.steps /\ removeStep(i) /\ render
  \/ \E i \in 1..MaxSavedSteps : i \in DOMAIN draft.steps /\ addValidation(i) /\ render
  \/ \E i \in 1..MaxSavedSteps, j \in 1..MaxRules, v \in ConfigTexts :
       editConfig(i, j, v) /\ render
  \/ \E i \in 1..MaxSavedSteps, j \in 1..MaxRules :
       /\ i \in DOMAIN draft.steps
       /\ j \in DOMAIN draft.steps[i].validations
       /\ removeValidation(i, j)
       /\ render

SpecEditor == Init /\ [][NextEditor]_vars

(***************************************************************************)
(* Records and drafts: a record is selected or a draft is written, and the *)
(* draft is saved.                                                         *)
(***************************************************************************)
NextRecord ==
  \/ \E ok \in BOOLEAN : LoadWorkflowsDone(ok) /\ render
  \/ \E k \in 1..(Len(InitialStore) + MaxSaves) : selectWorkflow(k) /\ render
  \/ startNewWorkflow /\ render
  \/ updateDraftField("name", <<"a">>) /\ render
  \/ \E i \in 1..MaxSavedSteps :
       i \in DOMAIN draft.steps /\ updateStep(i, [prompt |-> <<"a">>]) /\ render
  \/ Len(draft.steps) < MaxSavedSteps /\ addStep /\ render
  \/ saveWorkflow /\ render
  \/ \E i \in 1..MaxSaves : createWorkflowOk(i) /\ render
  \/ \E i \in 1..MaxSaves : createWorkflowFail(i) /\ render
  \/ \E i \in 1..MaxSaves, ok \in BOOLEAN : saveWorkflowDone(i, ok) /\ render

SpecRecord == Init /\ [][NextRecord]_vars

(***************************************************************************)
(* The Max Retries input of a step.  The value of a number input is the    *)
(* text of a floating-point number, or the empty text when what was typed  *)
(* is not one; min and max do not keep a typed number out of the value.    *)
(* A text is a sequence of characters here.                                *)
(***************************************************************************)
Digits == {"0", "1", "2", "3", "4", "5", "6", "7", "8", "9"}

DigitValue(c) ==
  CASE c = "0" -> 0 [] c = "1" -> 1 [] c = "2" -> 2 [] c = "3" -> 3 [] c = "4" -> 4
    [] c = "5" -> 5 [] c = "6" -> 6 [] c = "7" -> 7 [] c = "8" -> 8 [] c = "9" -> 9

\* The value of the longest prefix of digits, read after the digits `acc` stands for.
RECURSIVE ParseDigits(_, _)
ParseDigits(s, acc) ==
  IF s # <<>> /\ Head(s) \in Digits
    THEN ParseDigits(Tail(s), 10 * acc + DigitValue(Head(s)))
    ELSE acc

\* parseInt(text): an optional sign and the digits that follow it; NaN when no
\* digit follows.
parseInt(text) ==
  LET negative == text # <<>> /\ Head(text) = "-"
      signed == text # <<>> /\ Head(text) \in {"-", "+"}
      rest == IF signed THEN Tail(text) ELSE text
  IN IF rest = <<>> \/ Head(rest) \notin Digits
       THEN [nan |-> TRUE, value |-> 0]
       ELSE [nan |-> FALSE,
             value |-> IF negative THEN 0 - ParseDigits(rest, 0) ELSE ParseDigits(rest, 0)]

\* n || 0: NaN and 0 are falsy.
OrZero(n) == IF n.nan THEN 0 ELSE n.value

\* onChange of the Max Retries input of a rendered step.
editMaxRetries(stepIndex, text) ==
  /\ stepIndex \in DOMAIN draft.steps
  /\ updateStepFrom("editMaxRetries", stepIndex, [max_retries |-> OrZero(parseInt(text))])

\* Values the input hands over: empty, in range, negative, above max, a
\* fraction, an exponent.
RetryTexts ==
  {<<>>, <<"3">>, <<"-", "3">>, <<"9">>, <<"2", ".", "5">>, <<"1", "e", "2">>}

NextRetries ==
  \/ \E ok \in BOOLEAN : LoadWorkflowsDone(ok) /\ render
  \/ \E k \in 1..Len(InitialStore) : selectWorkflow(k) /\ render
  \/ startNewWorkflow /\ render
  \/ Len(draft.steps) < MaxSavedSteps /\ addStep /\ render
  \/ \E i \in 1..MaxSavedSteps, t \in RetryTexts : editMaxRetries(i, t) /\ render

SpecRetries == Init /\ [][NextRetries]_vars

(***************************************************************************)
(* Commands issued without a render between them: the edit commands of one *)
(* event all see the draft of the same render, and the render follows.     *)
(***************************************************************************)
rerender ==
  /\ mounted
  /\ rendered # [draft |-> draft, shared |-> shared]
  /\ rendered' = [draft |-> draft, shared |-> shared]
  /\ last' = [op |-> "render", arg |-> ""]
  /\ UNCHANGED <<serverVars, workflows, selectedId, editorVars, sessionVars,
                 channelVars, saveVars, listCalls, mounted>>

NextBatch ==
  \/ \E ok \in BOOLEAN : LoadWorkflowsDone(ok) /\ render
  \/ \E k \in 1..Len(InitialStore) : selectWorkflow(k) /\ render
  \/ startNewWorkflow /\ render
  \/ \E i \in 1..MaxSavedSteps :
       /\ i \in DOMAIN rendered.draft.steps
       /\ updateStep(i, [prompt |-> <<"a">>])
       /\ UNCHANGED rendered
  \/ Len(draft.steps) < MaxSavedSteps /\ addStep /\ UNCHANGED rendered
  \/ \E i \in 1..MaxSavedSteps :
       /\ i \in DOMAIN rendered.draft.steps
       /\ addValidation(i)
       /\ UNCHANGED rendered
  \/ \E i \in 1..MaxSavedSteps, j \in 1..MaxRules, v \in ConfigTexts :
       /\ i \in DOMAIN rendered.draft.steps
       /\ j \in DOMAIN RenderedRules(i)
       /\ updateValidation(i, j, [expected |-> v])
       /\ UNCHANGED rendered
  \/ \E i \in 1..MaxSavedSteps, j \in 1..MaxRules :
       /\ i \in DOMAIN rendered.draft.steps
       /\ j \in DOMAIN RenderedRules(i)
       /\ removeValidation(i, j)
       /\ UNCHANGED rendered
  \/ rerender

SpecBatch == Init /\ [][NextBatch]_vars

(***************************************************************************)
(* Properties.                                                             *)
(***************************************************************************)
Terminal == {"completed", "failed"}

EventTypesOf(log) == [i \in DOMAIN log |-> log[i].event_type]

\* A text that String.prototype.trim reduces to nothing: only whitespace.
IsBlank(s) == \A i \in DOMAIN s : s[i] = " "

\* C1: at most one event channel is open at any time: the number of sockets the
\* controller opened and that are not yet closed is 0 or 1.
C1_AtMostOneOpenChannel == Cardinality(OpenSockets) <= 1

\* C2: once the status is completed or failed, an event delivered on the channel
\* is still appended to the log and the status does not go back to running.
C2_StatusMonotonic ==
  [][(/\ mounted
      /\ runStatus \in Terminal
      /\ last'.op = "onmessage"
      /\ IsExecutionEvent(last'.arg))
     => (/\ Len(events') = Len(events) + 1
         /\ runStatus' # "running")]_vars

\* C2, its case: [run_started, step_started, run_completed, step_started] was
\* fed, the status is completed and the log holds the four events.
C2_Witness ==
  /\ EventTypesOf(events) =
       <<"run_started", "step_started", "run_completed", "step_started">>
  /\ runStatus = "completed"
  /\ last.op = "onmessage"

\* C3: while a run session is shown, its log holds no event of another run's
\* stream: every ExecutionEvent in the log carries the session's run id (so the
\* log is empty from the start of the session to its first event).
C3_NoEventOfAnotherRun ==
  (mounted /\ runId # 0) =>
    \A i \in DOMAIN events :
      events[i].event_type \in EventTypes => events[i].run_id = runId

\* C4: every well-formed event the channel delivers is appended at the end of the
\* log, and within a session (no run started, no workflow selected or created in
\* the step) the log before a step is a prefix of the log after it.
C4_AppendOnly ==
  [][/\ (mounted /\ last'.op = "onmessage" /\ IsExecutionEvent(last'.arg))
          => (/\ Len(events') = Len(events) + 1
              /\ SubSeq(events', 1, Len(events)) = events
              /\ events'[Len(events')].event_type = last'.arg)
     /\ \/ IsPrefix(events, events')
        \/ last' = [op |-> "runWorkflow", arg |-> "ok"]
        \/ last'.op \in {"selectWorkflow", "startNewWorkflow"}]_vars

\* C4, its case: the same event was delivered twice in a row and the log holds
\* it twice.
C4_Witness ==
  /\ Len(events) >= 3
  /\ events[2] = events[3]
  /\ events[1] # events[2]
  /\ last.op = "onmessage"

\* C5: in a draft that started from createEmptyWorkflow (no record is selected),
\* steps[i].order is the position of the step, counted from 1.
C5_OrderIsPosition ==
  selectedId = 0 => \A i \in DOMAIN draft.steps : draft.steps[i].order = i

\* C5, its case: the first of several steps of a fresh draft was removed.
C5_Witness ==
  /\ selectedId = 0
  /\ last.op = "removeStep"
  /\ Len(draft.steps) >= 2
  /\ draft.steps[1].name = "Step 2"
  /\ draft.steps[2].name = "Step 3"

\* C6: a rule carries no field that belongs only to another type than its own:
\* of expected, pattern, test_code and criteria it holds at most the one field
\* of its type, and none when its type is python_syntax or json_valid.
C6_NoStaleField ==
  \A i \in DOMAIN draft.steps :
    \A j \in DOMAIN draft.steps[i].validations :
      LET rule == draft.steps[i].validations[j] IN
      (DOMAIN rule) \ {"type"} \subseteq {ConfigField(rule.type)}

\* C7: a message that is not the encoding of an ExecutionEvent is dropped: the
\* log and the status are as they were before it, and the channel stays open.
C7_MalformedDropped ==
  [][(last'.op = "onmessage" /\ ~ IsExecutionEvent(last'.arg))
     => (events' = events /\ runStatus' = runStatus /\ sockets' = sockets)]_vars

\* C8: when the draft's name is blank or the prompt of one of its steps is
\* blank, the save command issues no request and leaves the draft as it was.
C8_BlankNotSaved ==
  [][(/\ last'.op = "saveWorkflow"
      /\ last'.arg \in {"request", "alert"}
      /\ \/ IsBlank(draft.name)
         \/ \E i \in DOMAIN draft.steps : IsBlank(draft.steps[i].prompt))
     => (restCalls' = restCalls /\ saveCalls' = saveCalls /\ draft' = draft)]_vars

\* C8, its case: save was refused for a draft whose name is not blank and whose
\* second step has a prompt of whitespace only.
C8_Witness ==
  /\ last = [op |-> "saveWorkflow", arg |-> "alert"]
  /\ ~ IsBlank(draft.name)
  /\ Len(draft.steps) >= 2
  /\ ~ IsBlank(draft.steps[1].prompt)
  /\ draft.steps[2].prompt = <<" ">>
  /\ restCalls = 0

\* C9: once the unmount cleanup has run, no event channel is open.
C9_TeardownClosesAll == ~ mounted => OpenSockets = {}

\* C10: when the start-run call has failed, the run status is idle: it is none
\* of running, completed and failed.
C10_FailedStartIsIdle ==
  (mounted /\ last = [op |-> "runWorkflow", arg |-> "fail"]) => runStatus = "null"

\* C11: a start command whose start-run call fails opens no channel: every
\* socket is created by the step that handles a successful response.
C11_NoChannelOnFailure ==
  [][/\ last' = [op |-> "runWorkflow", arg |-> "fail"]
          => (sockets' = sockets /\ wsRef' = wsRef)
     /\ Len(sockets') > Len(sockets)
          => last' = [op |-> "runWorkflow", arg |-> "ok"]]_vars

\* C11, its case: a start-run call has failed while another is still awaited and
\* no socket has been created.
C11_Witness ==
  /\ last = [op |-> "runWorkflow", arg |-> "fail"]
  /\ mounted
  /\ Len(runCalls) = 1
  /\ sockets = <<>>

\* C12: on a successful start-run response the run id of the response becomes
\* runId, the status becomes running, the log becomes empty, and exactly one
\* socket is created, open and addressed to that run id.
C12_SuccessfulStart ==
  [][(mounted /\ last' = [op |-> "runWorkflow", arg |-> "ok"])
     => (/\ runId' = nextRun'
         /\ nextRun' = nextRun + 1
         /\ runStatus' = "running"
         /\ events' = <<>>
         /\ Len(sockets') = Len(sockets) + 1
         /\ SubSeq(sockets', 1, Len(sockets)) = sockets
         /\ sockets'[Len(sockets')].run = runId'
         /\ sockets'[Len(sockets')].state = "open")]_vars

\* C12, its case: a second run has just been started.
C12_Witness ==
  /\ last = [op |-> "runWorkflow", arg |-> "ok"]
  /\ mounted
  /\ runId = 2
  /\ runStatus = "running"
  /\ events = <<>>
  /\ Len(sockets) = 2
  /\ sockets[2].run = 2

\* C15: once the status is completed or failed, an event delivered on the channel
\* leaves it as it is: completed never becomes failed, failed never completed.
C15_TerminalStatusKept ==
  [][(mounted /\ last'.op = "onmessage" /\ runStatus \in Terminal)
     => runStatus' = runStatus]_vars

\* C19: when the channel of the run shown closes while the status is running (no
\* terminal event was delivered), the state the component renders changes.
C19_CloseIsSurfaced ==
  [][(/\ mounted
      /\ last'.op = "onclose"
      /\ runStatus = "running"
      /\ wsRef \in OpenSockets
      /\ sockets[wsRef].run = runId
      /\ sockets'[wsRef].state = "closed")
     => <<workflows, selectedId, draft, isEditing, runId, runStatus, events>>'
          # <<workflows, selectedId, draft, isEditing, runId, runStatus, events>>]_vars

\* C13: removeStep called on a draft of exactly one step does not leave a draft
\* of no steps.
C13_LastStepNotRemoved ==
  [][(last'.op = "removeStep" /\ Len(draft.steps) = 1)
     => Len(draft'.steps) # 0]_vars

\* C16: an edit command given a step or rule index the draft does not have
\* raises no failure and leaves the draft's name, description and steps as they
\* were.
C16_StaleCommandIsNoOp ==
  [][(/\ last'.op \in {"updateStep", "addValidation", "updateValidation",
                       "removeValidation"}
      /\ last'.arg # "")
     => (last'.arg = "stale" /\ draft' = draft)]_vars

\* C20: right after addStep or removeStep every step's order is its position,
\* whatever record the draft was made from.
C20_OrderReestablished ==
  last.op \in {"addStep", "removeStep"}
    => \A i \in DOMAIN draft.steps : draft.steps[i].order = i

\* C14: the draft always has at least one step, under every sequence of the
\* editor's commands in which removeStep is issued only while the Remove button is
\* shown.
C14_StepsNeverEmpty == Len(draft.steps) >= 1

\* C14, its case: a step was removed and one step is left.
C14_Witness ==
  /\ last.op = "removeStep"
  /\ Len(draft.steps) = 1

\* The handlers that edit the draft.
DraftEdits ==
  {"updateDraftField", "updateStep", "addStep", "removeStep", "addValidation",
   "updateValidation", "editConfig", "handleTypeChange", "removeValidation"}

\* C17: no draft edit changes a record of the workflows list: the selected
\* record, its steps and their rules are after the edit what they were before.
C17_RecordNotMutated ==
  [][last'.op \in DraftEdits => workflows' = workflows]_vars

\* C17, its case: a rule was added to the step of a draft made from the selected
\* record, whose step still has its one rule.
C17_Witness ==
  /\ last.op = "addValidation"
  /\ selectedId = 1
  /\ Len(workflows) = 1
  /\ Len(draft.steps[1].validations) = 2
  /\ Len(workflows[1].steps[1].validations) = 1

\* The record of the workflows list with the given id.
RecordOf(id) == CHOOSE r \in {workflows[k] : k \in DOMAIN workflows} : r.id = id

UICeiling == 5

\* C21: every step's max_retries is an integer from 0 to the ceiling of the
\* input, whatever was entered into the Max Retries inputs.
C21_RetriesWithinCeiling ==
  \A i \in DOMAIN draft.steps : draft.steps[i].max_retries \in 0..UICeiling

\* The sockets opened for the run shown.
SessionSockets == {i \in DOMAIN sockets : sockets[i].run = runId}

\* C22: once the channel of the run shown is closed while the status is running,
\* the status leaves running only by the start of a new run or by the reset of
\* selectWorkflow or startNewWorkflow.
C22_StaysRunningAfterClose ==
  [][(/\ mounted
      /\ runId # 0
      /\ runStatus = "running"
      /\ SessionSockets # {}
      /\ SessionSockets \cap OpenSockets = {}
      /\ runStatus' # "running")
     => \/ last' = [op |-> "runWorkflow", arg |-> "ok"]
        \/ last'.op \in {"selectWorkflow", "startNewWorkflow"}]_vars

\* C23: at most one start-run request is awaiting its response: no request is
\* issued while another is in flight.
C23_OneStartInFlight == Len(runCalls) <= 1

\* C24: with a workflow selected and no start-run request in flight the Run
\* command can be taken, whatever the status is, so also when the status is
\* running and the channel of the run is closed.
C24_RunAvailable ==
  (mounted /\ selectedId # 0 /\ runCalls = <<>>) => ENABLED executeWorkflow

\* C25: removeStep given an index the draft does not have leaves the steps, each
\* with its order, exactly as they were.
C25_StaleRemoveIsNoOp ==
  [][(last'.op = "removeStep" /\ last'.arg = "stale")
     => draft'.steps = draft.steps]_vars

\* C26: from a cleared execution state (runId null, status null, log empty) the
\* log and the status change only by the successful start of a new run.
C26_ClearedStaysCleared ==
  [][(/\ mounted
      /\ runId = 0
      /\ runStatus = "null"
      /\ events = <<>>
      /\ <<runId, runStatus, events>>' # <<runId, runStatus, events>>)
     => last' = [op |-> "runWorkflow", arg |-> "ok"]]_vars

\* C27: the run shown was started for the workflow that is selected: every socket
\* opened for runId was opened for selectedId.
C27_SessionOfSelected ==
  (mounted /\ runId # 0) => \A i \in SessionSockets : sockets[i].wf = selectedId

\* C29: whenever the unsaved flag is off and a record is selected, the draft is
\* the content of that record, the one last saved or last selected.
C29_CleanDraftIsRecord ==
  (mounted /\ ~ isEditing /\ selectedId \in DOMAIN store)
    => draft = ToDraft(store[selectedId])

\* The rules of step i in the draft.
RulesOf(d, i) == IF i \in DOMAIN d.steps THEN d.steps[i].validations ELSE <<>>

\* C28: a validation edit command takes effect on the draft as it is when the
\* command is issued, rendered or not: addValidation appends a rule to the rules
\* the step has, updateValidation merges its updates into them, removeValidation
\* takes one of them out.
C28_NoLostUpdate ==
  [][\A i \in 1..MaxSavedSteps :
       /\ (i \in DOMAIN rendered.draft.steps /\ addValidation(i))
            => RulesOf(draft', i)
                 = Append(RulesOf(draft, i), [type |-> "contains", expected |-> ""])
       /\ \A j \in 1..MaxRules :
            (/\ i \in DOMAIN rendered.draft.steps
             /\ j \in DOMAIN RenderedRules(i))
            => /\ removeValidation(i, j)
                    => RulesOf(draft', i) = FilterOutIndex(RulesOf(draft, i), j)
               /\ \A v \in ConfigTexts :
                    updateValidation(i, j, [expected |-> v])
                      => RulesOf(draft', i)
                           = MergeAt(RulesOf(draft, i), j, [expected |-> v])]_vars

====
